---- MODULE Spec2Model ----
(***************************************************************************)
(* Model of flytekit's ArrayNode (src/flytekit/core/array_node.py): the    *)
(* construction of the node and its local, sequential fan-out execution    *)
(* (local_execute) with the partial-success budget.                        *)
(*                                                                         *)
(* Encoding of Python values                                               *)
(*   Optional[T]      <<>> for None, <<v>> for a value v                   *)
(*   float ratio      <<num, den>>, the rational num/den                   *)
(*   native value     [type |-> "int" | "float", val |-> n]                *)
(*   keyword argument [kind |-> "missing" | "scalar" | "list", items |-> s]*)
(*   Literal          [none |-> BOOLEAN, val |-> n]                        *)
(*   exception        [type |-> name, index |-> i]; index identifies the   *)
(*                    sub-invocation that raised it (-1: none)             *)
(***************************************************************************)
EXTENDS Integers, Sequences, FiniteSets, TLC

\* Longest mapped collection a caller passes.
MaxLen == 3

None == <<>>
Some(v) == <<v>>

IntVal(n) == [type |-> "int", val |-> n]
\* A native value that is not an int (and not subscriptable).
FloatVal == [type |-> "float", val |-> 0]

Missing == [kind |-> "missing", items |-> <<>>]
Scalar(v) == [kind |-> "scalar", items |-> <<v>>]
List(s) == [kind |-> "list", items |-> s]

Lit(n) == [none |-> FALSE, val |-> n]
\* Literal(scalar=Scalar(none_type=Void()))
literal_with_none == [none |-> TRUE, val |-> 0]

NoError == [type |-> "none", index |-> -1]
Error(t, idx) == [type |-> t, index |-> idx]

\* The target's declared inputs, in declaration order, and their type.
InputKeys == <<"x", "y">>
InputNames == {InputKeys[j] : j \in 1..Len(InputKeys)}
TargetInputType(k) == "int"

SeqsUpTo(S, n) == UNION {[1..m -> S] : m \in 0..n}

\* A call that passes no keyword argument.
NoKwargs == [k \in InputNames |-> Missing]

VARIABLES
    pc,                   \* "new", "rejected", "ready", "running", "returned", "raised"
    node,                 \* the ArrayNode's fields after __init__
    kwargs,               \* keyword arguments of the current local_execute call
    inner_kwargs,         \* history: the keyword arguments the caller gave
    outputs_expected,     \* local of local_execute
    mapped_entity_count,  \* local of local_execute
    failed_count,         \* local of local_execute
    min_successes,        \* local of local_execute
    i,                    \* loop index of local_execute
    literals,             \* local of local_execute
    invocations,          \* history: the target invocations of the current call
    result,               \* value returned by the current call
    exc,                  \* exception raised to the caller
    ctor,                 \* history: the arguments the node was constructed with
    prev,                 \* history: an earlier call on the node and how it ended
    \* jupyter decorator (jupyter_lib/decorator.py)
    jpc,                  \* position of the current run of jupyter.execute
    jup,                  \* self: the decorator's fields
    jenv,                 \* what the run meets: local execution, notebook directory
    child_process,        \* the server process: state "none", "running", "exited"
    events,               \* history: what the run has executed, in order
    jresult,              \* what jupyter.execute returned or raised
    \* SageMaker deployment workflows (awssagemaker_inference/workflow.py)
    wpc,                  \* position of the current call of a workflow builder
    wargs,                \* its arguments
    wf,                   \* the Workflow being built
    task_input_dict,      \* local of create_sagemaker_deployment
    nodes,                \* local of create_sagemaker_deployment
    wexc                  \* exception raised by the builder

jupyter_vars == <<jpc, jup, jenv, child_process, events, jresult>>
workflow_vars == <<wpc, wargs, wf, task_input_dict, nodes, wexc>>

\* The variables of the components other than ArrayNode.
others == <<jupyter_vars, workflow_vars>>

array_vars == <<pc, node, kwargs, inner_kwargs, outputs_expected, mapped_entity_count, failed_count,
                min_successes, i, literals, invocations, result, exc, ctor, prev>>

\* The variables of the components other than the jupyter decorator.
not_jupyter == <<array_vars, workflow_vars>>

\* The variables of the components other than the workflow builders.
not_workflow == <<array_vars, jupyter_vars>>

vars == <<array_vars, others>>

(***************************************************************************)
(* ArrayNode.__init__                                                      *)
(***************************************************************************)

\* The target entity handed to the constructor: its kind, its name and the
\* number of outputs its python_interface declares.
Target(kind, n_outputs) == [kind |-> kind, name |-> "lp", n_outputs |-> n_outputs]

\* transform_interface_to_list_interface: every input outside the bound set
\* becomes a list of its type; the outputs become lists, of Optional
\* elements when the flag is set.
transform_interface_to_list_interface(target, bound_inputs, optional_outputs) ==
    [inputs  |-> [k \in InputNames |->
                    IF k \in bound_inputs THEN TargetInputType(k)
                    ELSE "List[" \o TargetInputType(k) \o "]"],
     outputs |-> [o \in 1..target.n_outputs |->
                    IF optional_outputs THEN "List[Optional[int]]" ELSE "List[int]"]]

\* min_success_ratio is not None and min_success_ratio != 1 and n_outputs == 1
output_as_list_of_optionals(min_success_ratio, n_outputs) ==
    /\ min_success_ratio # None
    /\ min_success_ratio[1][1] # min_success_ratio[1][2]
    /\ n_outputs = 1

NoNode ==
    [target |-> Target("none", 0), concurrency |-> None, min_successes |-> None,
     min_success_ratio |-> None, execution_version |-> None, id |-> "",
     bound_inputs |-> {}, metadata |-> "None",
     collection_interface |-> transform_interface_to_list_interface(Target("none", 0), {}, FALSE)]

\* Mutant: the execution version is never looked at.
InitErrorAnyVersion(target, execution_version, metadata) ==
    IF target.n_outputs > 1 THEN Error("ValueError", -1)
    ELSE IF target.kind # "LaunchPlan" THEN Error("Exception", -1)
    ELSE IF metadata \notin {"None", "NodeMetadata"} THEN Error("Exception", -1)
    ELSE NoError

\* Mutant: any kind of target is taken.
InitErrorAnyTarget(target, execution_version, metadata) ==
    IF target.n_outputs > 1 THEN Error("ValueError", -1)
    ELSE IF execution_version \notin {None, Some(1)} THEN Error("ValueError", -1)
    ELSE IF metadata \notin {"None", "NodeMetadata"} THEN Error("Exception", -1)
    ELSE NoError

\* The exception __init__ raises for these arguments, NoError when it returns.
InitError(target, execution_version, metadata) ==
    IF target.n_outputs > 1 THEN Error("ValueError", -1)
    ELSE IF target.kind = "LaunchPlan"
         THEN IF execution_version # None /\ execution_version # Some(1)
              THEN Error("ValueError", -1)
              ELSE IF metadata # "None" /\ metadata # "NodeMetadata"
                   THEN Error("Exception", -1)
                   ELSE NoError
         ELSE Error("Exception", -1)

\* The fields of the object __init__ leaves behind when it returns.
ArrayNodeInit(target, concurrency, min_succ, min_success_ratio, bound_inputs, execution_version, metadata) ==
    [target               |-> target,
     concurrency          |-> concurrency,
     min_successes        |-> min_succ,
     min_success_ratio    |-> min_success_ratio,
     execution_version    |-> IF execution_version = None THEN Some(1) ELSE execution_version,
     id                   |-> target.name,
     bound_inputs         |-> bound_inputs,
     metadata             |-> metadata,
     collection_interface |->
         transform_interface_to_list_interface(
             target, bound_inputs,
             output_as_list_of_optionals(min_success_ratio, target.n_outputs))]

\* Lines 205-206: the exception array_node raises by itself, if any.
FactoryError(target) ==
    IF target.kind # "LaunchPlan" THEN Error("ValueError", -1) ELSE NoError

\* Line 211: {**kwargs, **inner_kwargs}.
\* Mutant: the keyword arguments fixed at array_node time win.
CombinedKwargsFixedWins(fixed, inner) ==
    [k \in InputNames |-> IF fixed[k].kind = "missing" THEN inner[k] ELSE fixed[k]]

CombinedKwargs(fixed, inner) ==
    [k \in InputNames |-> IF inner[k].kind = "missing" THEN fixed[k] ELSE inner[k]]

(***************************************************************************)
(* The node as an enclosing graph sees it (lines 82-102)                   *)
(***************************************************************************)

name(n) == n.target.name

\* Mutant: the target's own interface is handed out.
python_interface_of_target(n) ==
    [inputs  |-> [k \in InputNames |-> TargetInputType(k)],
     outputs |-> [o \in 1..n.target.n_outputs |-> "int"]]

python_interface(n) == n.collection_interface
bindings(n) == <<>>
upstream_nodes(n) == <<>>

(***************************************************************************)
(* ArrayNode.local_execute                                                 *)
(***************************************************************************)

\* Python truthiness of an Optional[int] and of an Optional[float].
TruthyInt(o) == o # None /\ o[1] # 0
TruthyRatio(o) == o # None /\ o[1][1] # 0

\* math.ceil(n * ratio) for the ratio num/den, den > 0.
Ceil(n, ratio) == -((-(n * ratio[1])) \div ratio[2])

\* Positions, in declaration order, of the inputs that are not bound.
MappedPositions(n) == {j \in 1..Len(InputKeys) : InputKeys[j] \notin n.bound_inputs}

\* Mutant: the scan keeps the last input that is not bound.
LastMappedKey(n) ==
    InputKeys[CHOOSE j \in MappedPositions(n) : \A m \in MappedPositions(n) : j >= m]

\* Lines 110-115: the first input that is not bound (the scan breaks there).
FirstMappedKey(n) ==
    InputKeys[CHOOSE j \in MappedPositions(n) : \A m \in MappedPositions(n) : j <= m]

\* Mutant: the scan accepts an empty list.
CountErrorEmptyAccepted(n, kw) ==
    IF MappedPositions(n) = {} THEN NoError
    ELSE LET k == FirstMappedKey(n)
             v == kw[k]
         IN  IF v.kind = "missing" THEN Error("KeyError", -1)
             ELSE IF /\ v.kind = "list"
                     /\ (Len(v.items) = 0 \/ v.items[1].type = TargetInputType(k))
                  THEN NoError
                  ELSE Error("ValueError", -1)

\* Lines 109-119: the exception the scan for the mapped length raises, if any.
CountError(n, kw) ==
    IF MappedPositions(n) = {} THEN NoError
    ELSE LET k == FirstMappedKey(n)
             v == kw[k]
         IN  IF v.kind = "missing" THEN Error("KeyError", -1)
             ELSE IF /\ v.kind = "list"
                     /\ Len(v.items) > 0
                     /\ v.items[1].type = TargetInputType(k)
                  THEN NoError
                  ELSE Error("ValueError", -1)

\* Mutant: the length of the shortest mapped collection is counted.
MappedEntityCountShortest(n, kw) ==
    IF MappedPositions(n) = {} THEN 0
    ELSE LET lens == {Len(kw[InputKeys[j]].items) : j \in MappedPositions(n)}
         IN  CHOOSE len \in lens : \A m \in lens : len <= m

\* Mutant: only the first batch of `concurrency` elements is counted.
MappedEntityCountFirstBatch(n, kw) ==
    IF MappedPositions(n) = {} THEN 0
    ELSE LET len == Len(kw[FirstMappedKey(n)].items)
         IN  IF TruthyInt(n.concurrency) /\ n.concurrency[1] < len
             THEN n.concurrency[1] ELSE len

\* Lines 109-119: mapped_entity_count when the scan raises nothing.
MappedEntityCount(n, kw) ==
    IF MappedPositions(n) = {} THEN 0 ELSE Len(kw[FirstMappedKey(n)].items)

\* Lines 122-126: the threshold the loop compares against.
MinSuccesses(n, count) ==
    IF TruthyInt(n.min_successes) THEN n.min_successes[1]
    ELSE IF TruthyRatio(n.min_success_ratio) THEN Ceil(count, n.min_success_ratio[1])
    ELSE count

\* Lines 130-135: the exception raised while single_instance_inputs is
\* built for index idx; the keys are visited in declaration order.
KeyBuildError(n, kw, k, idx) ==
    IF kw[k].kind = "missing" THEN Error("KeyError", -1)
    ELSE IF k \in n.bound_inputs THEN NoError
    ELSE IF kw[k].kind = "scalar" THEN Error("TypeError", -1)
    ELSE IF Len(kw[k].items) <= idx THEN Error("IndexError", -1)
    ELSE NoError

BuildError(n, kw, idx) ==
    LET bad == {j \in 1..Len(InputKeys) : KeyBuildError(n, kw, InputKeys[j], idx) # NoError}
    IN  IF bad = {} THEN NoError
        ELSE KeyBuildError(n, kw, InputKeys[CHOOSE j \in bad : \A m \in bad : j <= m], idx)

\* Mutant: every mapped input is read at position 0.
SingleInstanceInputsFirst(n, kw, idx) ==
    [k \in InputNames |->
        IF k \notin n.bound_inputs THEN Scalar(kw[k].items[1]) ELSE kw[k]]

\* Lines 130-135: single_instance_inputs for index idx.
SingleInstanceInputs(n, kw, idx) ==
    [k \in InputNames |->
        IF k \notin n.bound_inputs THEN Scalar(kw[k].items[idx + 1]) ELSE kw[k]]

\* translate_inputs_to_literals: a native value converts to a literal of the
\* target's declared type, or the conversion raises.
TranslateError(inputs) ==
    IF \E k \in InputNames :
          \/ inputs[k].kind # "scalar"
          \/ inputs[k].items[1].type # TargetInputType(k)
    THEN Error("TypeTransformerFailedError", -1)
    ELSE NoError

\* Lines 139-145: kwargs_literals, the literal handed to the target per name.
KwargsLiterals(inputs) == [k \in InputNames |-> Lit(inputs[k].items[1].val)]

\* The target entity: it raises when x is negative, otherwise its output
\* (when it declares one) is 10 * x + y.
TargetRaises(kwargs_literals) == kwargs_literals["x"].val < 0
TargetOutput(kwargs_literals) == Lit(10 * kwargs_literals["x"].val + kwargs_literals["y"].val)

NoResult == [kind |-> "none", var |-> "", literals |-> <<>>]
\* Promise(var="o0", val=Literal(collection=LiteralCollection(literals)))
Promise(lits) == [kind |-> "Promise", var |-> "o0", literals |-> lits]
VoidPromise(task_name) == [kind |-> "VoidPromise", var |-> task_name, literals |-> <<>>]

\* Mutant: the count of failures of the call before is kept.
InitialFailedCountKept(old) == old

\* Line 121: failed_count = 0; old is the value the last call left.
InitialFailedCount(old) == 0

\* Mutants: the loop stays on its index, or steps over one.
NextIndexRetry(idx) == idx
NextIndexSkip(idx) == idx + 2

\* Line 129: for i in range(mapped_entity_count).
NextIndex(idx) == idx + 1

\* Mutants of the abort test: the count of failures taken before its
\* increment, and a non-strict comparison.
BudgetExhaustedStale(count, failed, min_succ) == count - (failed - 1) < min_succ
BudgetExhaustedNonStrict(count, failed, min_succ) == count - failed <= min_succ

\* Line 157: the abort test made after a failure has been counted.
BudgetExhausted(count, failed, min_succ) == count - failed < min_succ

\* Mutant: a success writes over the last entry.
AppendOutputOverwrites(lits, output) ==
    IF lits = <<>> THEN <<output>> ELSE [lits EXCEPT ![Len(lits)] = output]

\* Line 150: a success appends the target's output.
AppendOutput(lits, output) == Append(lits, output)

\* Mutant: a failure leaves no entry behind.
AppendNoneSkipped(lits) == lits

\* Lines 154-155: a failure appends the none literal.
AppendNone(lits) == Append(lits, literal_with_none)

\* Mutant: the exception of the first failed invocation is raised instead.
AbortErrorFirst(idx, history) ==
    Error("TargetError",
          history[CHOOSE j \in 1..Len(history) :
                     /\ ~history[j].ok
                     /\ \A m \in 1..(j - 1) : history[m].ok].index)

\* Line 159: the exception that leaves local_execute on abort is the one
\* just caught, raised by the invocation of index idx; history holds the
\* invocations made so far, that of idx included.
AbortError(idx, history) == Error("TargetError", idx)

(***************************************************************************)
(* Inputs of the model                                                     *)
(***************************************************************************)

XElems == {IntVal(-1), IntVal(1), IntVal(2)}
XArgs == {Missing, Scalar(IntVal(1)), Scalar(IntVal(-1))}
             \cup {List(s) : s \in SeqsUpTo(XElems, MaxLen)}

\* The lists 3, 4, 5, ... of every length, and the same lists with a non-int
\* in the last place.
YLists == {[j \in 1..m |-> IntVal(2 + j)] : m \in 0..MaxLen}
              \cup {[j \in 1..m |-> IF j = m THEN FloatVal ELSE IntVal(2 + j)] : m \in 1..MaxLen}
YArgs == {Missing, Scalar(IntVal(3)), Scalar(FloatVal)} \cup {List(s) : s \in YLists}

KwargsChoices == {[k \in InputNames |-> IF k = "x" THEN a ELSE b] : a \in XArgs, b \in YArgs}

MinSuccessesChoices == {None, Some(0), Some(1), Some(MaxLen + 1)}
RatioChoices == {None, Some(<<1, 2>>), Some(<<1, 1>>)}

ConcurrencyChoices == {None, Some(0), Some(2)}

\* What is recorded of a construction: which callable made the node, its
\* arguments and, for array_node, the keyword arguments it fixed.
NoCtor ==
    [via |-> "none", target |-> Target("none", 0), concurrency |-> None,
     min_successes |-> None, min_success_ratio |-> None, bound_inputs |-> {},
     execution_version |-> None, metadata |-> "None", kwargs |-> NoKwargs]

\* Constructor arguments that vary the policy over a valid target ...
PolicyArgs ==
    [via : {"ArrayNode"}, kwargs : {NoKwargs},
     target : {Target("LaunchPlan", 0), Target("LaunchPlan", 1)},
     concurrency : {None},
     min_successes : MinSuccessesChoices,
     min_success_ratio : RatioChoices,
     bound_inputs : SUBSET InputNames,
     execution_version : {None},
     metadata : {"None"}]

\* ... and arguments that vary what the constructor validates.
ValidationArgs ==
    [via : {"ArrayNode"}, kwargs : {NoKwargs},
     target : {Target(kind, n) : kind \in {"LaunchPlan", "PythonTask"}, n \in 0..2},
     concurrency : ConcurrencyChoices,
     min_successes : {None},
     min_success_ratio : {None},
     bound_inputs : {{}},
     execution_version : {None, Some(1), Some(2)},
     metadata : {"None", "NodeMetadata", "TaskMetadata"}]

\* Arguments of array_node(target, concurrency, min_success_ratio,
\* min_successes, **kwargs); it passes no bound_inputs, execution_version
\* or metadata on.
FactoryArgs ==
    [via : {"array_node"},
     kwargs : {NoKwargs,
               [k \in InputNames |->
                   IF k = "y" THEN List([j \in 1..MaxLen |-> IntVal(2 + j)]) ELSE Missing]},
     target : {Target("LaunchPlan", 1), Target("LaunchPlan", 2), Target("PythonTask", 1)},
     concurrency : {None, Some(2)},
     min_successes : {None},
     min_success_ratio : {None, Some(<<1, 2>>)},
     bound_inputs : {{}},
     execution_version : {None},
     metadata : {"None"}]

\* Inputs of the specification that repeats calls.
RepeatArgs ==
    [via : {"ArrayNode"}, kwargs : {NoKwargs},
     target : {Target("LaunchPlan", 0), Target("LaunchPlan", 1)},
     concurrency : ConcurrencyChoices,
     min_successes : {None, Some(1)},
     min_success_ratio : {None, Some(<<1, 2>>)},
     bound_inputs : {{}},
     execution_version : {None},
     metadata : {"None"}]
RepeatKwargs ==
    {[k \in InputNames |->
         IF k = "x" THEN List(s) ELSE List([j \in 1..MaxLen |-> IntVal(2 + j)])] :
       s \in SeqsUpTo({IntVal(-1), IntVal(1)}, MaxLen)}

NoPrev == [ctor |-> NoCtor, kwargs |-> NoKwargs,
           outcome |-> [pc |-> "none", result |-> NoResult, exc |-> NoError]]

(***************************************************************************)
(* State machine                                                           *)
(***************************************************************************)

\* The jupyter decorator before a run of execute.
NoDecorator ==
    [enable |-> FALSE, run_task_first |-> FALSE, max_idle_seconds |-> None,
     pre_execute |-> "None", post_execute |-> "None", task_function |-> <<>>]
NoEnv == [local |-> FALSE, notebook_ok |-> FALSE]
NoOutcome == [kind |-> "none", fn |-> <<>>]
NoProcess == [state |-> "none", cmd |-> [timeout |-> None]]

JupyterInit ==
    /\ jpc = "idle"
    /\ jup = NoDecorator
    /\ jenv = NoEnv
    /\ child_process = NoProcess
    /\ events = <<>>
    /\ jresult = NoOutcome

\* A Workflow with nothing in it; a node runs an entity with its inputs
\* bound, edges are the pairs (upstream, downstream) of positions in nodes.
Workflow(wf_name, input_names) ==
    [name |-> wf_name, inputs |-> input_names, nodes |-> <<>>, edges |-> {},
     outputs |-> <<>>]
NoWorkflow == Workflow("none", <<>>)
NoWorkflowArgs ==
    [fn |-> "none", region |-> None, region_at_runtime |-> FALSE, override |-> FALSE,
     model_input_types |-> None, endpoint_config_input_types |-> None,
     endpoint_input_types |-> None, names |-> "absent"]

WorkflowInit ==
    /\ wpc = "idle"
    /\ wargs = NoWorkflowArgs
    /\ wf = NoWorkflow
    /\ task_input_dict = <<>>
    /\ nodes = <<>>
    /\ wexc = NoError

Init ==
    /\ JupyterInit
    /\ WorkflowInit
    /\ pc = "new"
    /\ node = NoNode
    /\ kwargs = [k \in InputNames |-> Missing]
    /\ inner_kwargs = NoKwargs
    /\ outputs_expected = FALSE
    /\ mapped_entity_count = 0
    /\ failed_count = 0
    /\ min_successes = 0
    /\ i = 0
    /\ literals = <<>>
    /\ invocations = <<>>
    /\ result = NoResult
    /\ exc = NoError
    /\ ctor = NoCtor
    /\ prev = NoPrev

locals == <<outputs_expected, mapped_entity_count, failed_count, min_successes, i, literals>>

\* ArrayNode(target, concurrency, min_successes, min_success_ratio,
\*           bound_inputs, execution_version, metadata) for arguments a.
Constructed(a) ==
    LET err == InitError(a.target, a.execution_version, a.metadata)
    IN  /\ ctor' = a
        /\ IF err # NoError
           THEN /\ pc' = "rejected"
                /\ exc' = err
                /\ node' = NoNode
           ELSE /\ pc' = "ready"
                /\ exc' = NoError
                /\ node' = ArrayNodeInit(a.target, a.concurrency, a.min_successes,
                                         a.min_success_ratio, a.bound_inputs,
                                         a.execution_version, a.metadata)

Construct ==
    /\ pc = "new"
    /\ \E a \in PolicyArgs \cup ValidationArgs : Constructed(a)
    /\ UNCHANGED <<kwargs, inner_kwargs, locals, invocations, result, prev, others>>

\* array_node(target, concurrency, min_success_ratio, min_successes, **kwargs)
\* (lines 205-214): the callable it returns holds the node and the kwargs.
ArrayNodeFactory ==
    /\ pc = "new"
    /\ \E a \in FactoryArgs :
          IF FactoryError(a.target) # NoError
          THEN /\ ctor' = a
               /\ pc' = "rejected"
               /\ exc' = FactoryError(a.target)
               /\ node' = NoNode
          ELSE Constructed(a)
    /\ UNCHANGED <<kwargs, inner_kwargs, locals, invocations, result, prev, others>>

\* Mutant: the threshold is stored on the node.
SelfAfterEntryStored(n, count) ==
    [n EXCEPT !.min_successes = Some(MinSuccesses(n, count))]

\* Lines 105-128 assign locals only: self is as it was. count is the
\* mapped_entity_count of the call.
SelfAfterEntry(n, count) == n

\* local_execute(ctx, **kw) up to the head of the loop (lines 105-128), kw
\* being the call's keyword arguments: those given to the node, or to the
\* callable of array_node, which adds the ones it holds (lines 210-212).
Called(inner) ==
    LET kw    == CombinedKwargs(ctor.kwargs, inner)
        err   == CountError(node, kw)
        count == IF err = NoError THEN MappedEntityCount(node, kw) ELSE 0
    IN  /\ kwargs' = kw
        /\ inner_kwargs' = inner
        /\ node' = SelfAfterEntry(node, count)
        /\ outputs_expected' = (Len(python_interface(node).outputs) > 0)
        /\ mapped_entity_count' = count
        /\ failed_count' = InitialFailedCount(failed_count)
        /\ min_successes' = IF err = NoError THEN MinSuccesses(node, count) ELSE 0
        /\ i' = 0
        /\ literals' = <<>>
        /\ invocations' = <<>>
        /\ result' = NoResult
        /\ exc' = err
        /\ pc' = IF err = NoError THEN "running" ELSE "raised"

Call ==
    /\ pc = "ready"
    /\ \E kw \in KwargsChoices : Called(kw)
    /\ UNCHANGED <<ctor, prev, others>>

Raise(e) ==
    /\ pc' = "raised"
    /\ exc' = e
    /\ UNCHANGED <<i, result>>

\* Mutant: the try block is opened before the inputs are built.
CaughtByExceptWide(stage) == TRUE

\* Lines 147-152: the try block holds the call of the target and nothing of
\* lines 130-145; stage is "build", "translate" or "invoke".
CaughtByExcept(stage) == stage = "invoke"

\* Lines 152-159: the except branch, entered with the exception e.
Except(e) ==
    IF outputs_expected
    THEN /\ literals' = AppendNone(literals)
         /\ failed_count' = failed_count + 1
         /\ IF BudgetExhausted(mapped_entity_count, failed_count', min_successes)
            THEN Raise(e)
            ELSE /\ i' = NextIndex(i)
                 /\ UNCHANGED <<pc, exc, result>>
    ELSE /\ i' = NextIndex(i)
         /\ UNCHANGED <<literals, failed_count, pc, exc, result>>

\* An exception e raised at a stage of the pass: caught at line 152 or
\* propagated to the caller.
Raised(stage, e) ==
    IF CaughtByExcept(stage)
    THEN Except(e)
    ELSE Raise(e) /\ UNCHANGED <<failed_count, literals>>

\* One iteration of the loop over range(mapped_entity_count) (lines 129-159).
Iterate ==
    /\ pc = "running"
    /\ i < mapped_entity_count
    /\ UNCHANGED <<node, kwargs, inner_kwargs, outputs_expected, mapped_entity_count, min_successes,
                   ctor, prev, others>>
    /\ LET build == BuildError(node, kwargs, i)
           inputs == SingleInstanceInputs(node, kwargs, i)
       IN  IF build # NoError
           THEN Raised("build", build) /\ UNCHANGED invocations
           ELSE IF TranslateError(inputs) # NoError
           THEN Raised("translate", TranslateError(inputs)) /\ UNCHANGED invocations
           ELSE LET kwargs_literals == KwargsLiterals(inputs)
                    failed == TargetRaises(kwargs_literals)
                IN  /\ invocations' = Append(invocations,
                                             [index |-> i, inputs |-> inputs,
                                              kwargs_literals |-> kwargs_literals,
                                              ok |-> ~failed])
                    /\ IF ~failed
                       THEN /\ literals' = IF outputs_expected
                                           THEN AppendOutput(literals, TargetOutput(kwargs_literals))
                                           ELSE literals
                            /\ UNCHANGED <<failed_count, pc, exc, result>>
                            /\ i' = NextIndex(i)
                       ELSE Raised("invoke", AbortError(i, invocations'))

\* Lines 161-163: the loop has run out.
Return ==
    /\ pc = "running"
    /\ i = mapped_entity_count
    /\ pc' = "returned"
    /\ result' = IF outputs_expected THEN Promise(literals) ELSE VoidPromise(name(node))
    /\ UNCHANGED <<node, kwargs, inner_kwargs, locals, invocations, exc, ctor, prev, others>>

\* The caller has taken the result or the exception; the frame of the call
\* (its locals) is gone and the node can be called again.
Exit ==
    /\ pc \in {"returned", "raised"}
    /\ pc' = "ready"
    /\ kwargs' = NoKwargs
    /\ inner_kwargs' = NoKwargs
    /\ outputs_expected' = FALSE
    /\ mapped_entity_count' = 0
    /\ failed_count' = 0
    /\ min_successes' = 0
    /\ i' = 0
    /\ literals' = <<>>
    /\ invocations' = <<>>
    /\ result' = NoResult
    /\ exc' = NoError
    /\ UNCHANGED <<node, ctor, prev, others>>

Next == Construct \/ ArrayNodeFactory \/ Call \/ Iterate \/ Return \/ Exit

Spec == Init /\ [][Next]_vars

(***************************************************************************)
(* Repeated calls: the same node, or a node that differs from it in its    *)
(* concurrency alone, is called again. What a call ended with is           *)
(* remembered in prev, and failed_count is left as the call ended so that  *)
(* what the next call starts from is decided by line 121.                  *)
(***************************************************************************)

Outcome == [pc |-> pc, result |-> result, exc |-> exc]

ConstructRepeat ==
    /\ pc = "new"
    /\ \E a \in RepeatArgs : Constructed(a)
    /\ UNCHANGED <<kwargs, inner_kwargs, locals, invocations, result, prev, others>>

\* A second ArrayNode, built with the same arguments but for concurrency.
ConstructSibling ==
    /\ pc = "ready"
    /\ prev # NoPrev
    /\ \E c \in ConcurrencyChoices :
          /\ c # ctor.concurrency
          /\ Constructed([ctor EXCEPT !.concurrency = c])
    /\ UNCHANGED <<kwargs, inner_kwargs, locals, invocations, result, prev, others>>

CallRepeat ==
    /\ pc = "ready"
    /\ \E kw \in RepeatKwargs : Called(kw)
    /\ UNCHANGED <<ctor, prev, others>>

\* The call has ended; it is remembered, or the one remembered is kept.
ExitRepeat ==
    /\ pc \in {"returned", "raised"}
    /\ pc' = "ready"
    /\ \/ prev' = [ctor |-> ctor, kwargs |-> kwargs, outcome |-> Outcome]
       \/ (prev # NoPrev /\ prev' = prev)
    /\ kwargs' = NoKwargs
    /\ inner_kwargs' = NoKwargs
    /\ outputs_expected' = FALSE
    /\ mapped_entity_count' = 0
    /\ min_successes' = 0
    /\ i' = 0
    /\ literals' = <<>>
    /\ invocations' = <<>>
    /\ result' = NoResult
    /\ exc' = NoError
    /\ UNCHANGED <<node, ctor, failed_count, others>>

NextRepeat ==
    ConstructRepeat \/ ConstructSibling \/ CallRepeat \/ Iterate \/ Return \/ ExitRepeat

SpecRepeat == Init /\ [][NextRepeat]_vars

(***************************************************************************)
(* The jupyter decorator (flyteinteractive/jupyter_lib/decorator.py)       *)
(*                                                                         *)
(* A callable is the sequence of its layers, outermost first: "fn" is a    *)
(* plain function, "wraps" a decorator that sets __wrapped__, "jupyter" a  *)
(* jupyter instance. All but the innermost layer have __wrapped__.         *)
(* What a callable does when called is its outcome alone.                  *)
(***************************************************************************)

TaskFunctions ==
    {<<"fn">>, <<"wraps", "fn">>, <<"jupyter", "fn">>,
     <<"wraps", "jupyter", "wraps", "fn">>}

\* How a call of the task ends; except Exception does not catch SystemExit.
TaskOutcomes == {"returns", "Exception", "SystemExit"}
Callbacks == {"None", "returns", "raises"}

JupyterArgs ==
    [enable : BOOLEAN, run_task_first : BOOLEAN,
     max_idle_seconds : {None, Some(0), Some(60)},
     pre_execute : Callbacks, post_execute : Callbacks,
     task_function : TaskFunctions]
JupyterEnvs == [local : BOOLEAN, notebook_ok : BOOLEAN]

Event(ev, fn, outcome) == [ev |-> ev, fn |-> fn, outcome |-> outcome]
Returned(fn) == [kind |-> "returned", fn |-> fn]
Raising(fn) == [kind |-> "raised", fn |-> fn]

\* Mutant: the function is called as it was passed.
UnwrappedNot(task_function) == task_function

\* Lines 65-69: the function exit_handler calls.
RECURSIVE Unwrapped(_)
Unwrapped(task_function) ==
    IF Len(task_function) <= 1 THEN task_function
    ELSE IF Head(task_function) = "jupyter" THEN Tail(task_function)
    ELSE Unwrapped(Tail(task_function))

\* Lines 152-160: the command of the server.
Command(self) ==
    [timeout |-> IF TruthyInt(self.max_idle_seconds) THEN self.max_idle_seconds ELSE None]

\* Mutant: the server is launched whatever run_task_first says.
AfterGuardLaunch(self) == "pre_execute"

\* Line 133: where execute goes on once the decorator is on and the run remote.
AfterGuard(self) == IF self.run_task_first THEN "task_first" ELSE "pre_execute"

\* Lines 123-133: execute is entered.
Execute ==
    /\ jpc = "idle"
    /\ \E self \in JupyterArgs, env \in JupyterEnvs :
          /\ jup' = self
          /\ jenv' = env
          /\ jpc' = IF ~self.enable \/ env.local THEN "direct" ELSE AfterGuard(self)
    /\ UNCHANGED <<child_process, events, jresult, not_jupyter>>

\* Line 131: return self.task_function(*args, **kwargs).
DirectCall ==
    /\ jpc = "direct"
    /\ \E outcome \in TaskOutcomes :
          /\ events' = Append(events, Event("task", jup.task_function, outcome))
          /\ jresult' = IF outcome = "returns" THEN Returned(jup.task_function)
                        ELSE Raising(jup.task_function)
    /\ jpc' = "done"
    /\ UNCHANGED <<jup, jenv, child_process, not_jupyter>>

\* Mutant: the failure of the task leaves execute.
CaughtNothing(outcome) == FALSE

\* Line 137: except Exception.
Caught(outcome) == outcome = "Exception"

\* Lines 134-139: the task is run first.
TaskFirst ==
    /\ jpc = "task_first"
    /\ \E outcome \in TaskOutcomes :
          /\ events' = Append(events, Event("task", jup.task_function, outcome))
          /\ jresult' = IF outcome = "returns" THEN Returned(jup.task_function)
                        ELSE IF Caught(outcome) THEN jresult
                        ELSE Raising(jup.task_function)
          /\ jpc' = IF outcome # "returns" /\ Caught(outcome) THEN "pre_execute" ELSE "done"
    /\ UNCHANGED <<jup, jenv, child_process, not_jupyter>>

\* A callback cb, named ev, is run if it was given; next is where the run
\* goes on when the callback is absent or returns.
RunCallback(cb, ev, next) ==
    /\ events' = IF cb = "None" THEN events ELSE Append(events, Event(ev, <<>>, cb))
    /\ jresult' = IF cb = "raises" THEN Raising(<<>>) ELSE jresult
    /\ jpc' = IF cb = "raises" THEN "done" ELSE next

\* Lines 142-144.
PreExecute ==
    /\ jpc = "pre_execute"
    /\ RunCallback(jup.pre_execute, "pre_execute", "launch")
    /\ UNCHANGED <<jup, jenv, child_process, not_jupyter>>

\* Lines 151-165: the child process is started.
StartServer ==
    /\ jpc = "launch"
    /\ child_process' = [state |-> "running", cmd |-> Command(jup)]
    /\ events' = Append(events, Event("start_server", <<>>, "returns"))
    /\ jpc' = "notebook"
    /\ UNCHANGED <<jup, jenv, jresult, not_jupyter>>

\* Lines 167-169: write_example_notebook (lines 15-39), which may fail to
\* write to notebook_dir.
WriteNotebook ==
    /\ jpc = "notebook"
    /\ events' = Append(events, Event("write_example_notebook", <<>>,
                                      IF jenv.notebook_ok THEN "returns" ELSE "raises"))
    /\ jresult' = IF jenv.notebook_ok THEN jresult ELSE Raising(<<>>)
    /\ jpc' = IF jenv.notebook_ok THEN "join" ELSE "done"
    /\ UNCHANGED <<jup, jenv, child_process, not_jupyter>>

\* The server ends: the user shuts it down or it has been idle too long.
ServerExits ==
    /\ child_process.state = "running"
    /\ child_process' = [child_process EXCEPT !.state = "exited"]
    /\ events' = Append(events, Event("server_exit", <<>>, "returns"))
    /\ UNCHANGED <<jpc, jup, jenv, jresult, not_jupyter>>

\* Line 58: child_process.join() returns.
Join ==
    /\ jpc = "join"
    /\ child_process.state = "exited"
    /\ jpc' = "post_execute"
    /\ UNCHANGED <<jup, jenv, child_process, events, jresult, not_jupyter>>

\* Lines 60-62.
PostExecute ==
    /\ jpc = "post_execute"
    /\ RunCallback(jup.post_execute, "post_execute", "handler_task")
    /\ UNCHANGED <<jup, jenv, child_process, not_jupyter>>

\* Lines 64-70: the function is unwrapped and called.
HandlerTask ==
    /\ jpc = "handler_task"
    /\ \E outcome \in TaskOutcomes :
          /\ events' = Append(events, Event("task", Unwrapped(jup.task_function), outcome))
          /\ jresult' = IF outcome = "returns" THEN Returned(Unwrapped(jup.task_function))
                        ELSE Raising(Unwrapped(jup.task_function))
    /\ jpc' = "done"
    /\ UNCHANGED <<jup, jenv, child_process, not_jupyter>>

NextJupyter ==
    \/ Execute \/ DirectCall \/ TaskFirst \/ PreExecute \/ StartServer
    \/ WriteNotebook \/ ServerExits \/ Join \/ PostExecute \/ HandlerTask

SpecJupyter == Init /\ [][NextJupyter]_vars

(***************************************************************************)
(* SageMaker deployment workflows (awssagemaker_inference/workflow.py)     *)
(*                                                                         *)
(* A dict of input types is the sequence of its keys; a binding gives a    *)
(* node's parameter a workflow input, a literal or None.                   *)
(***************************************************************************)

Binding(param, kind, value) == [param |-> param, kind |-> kind, value |-> value]
InputRef(param) == Binding(param, "input", param)
Contains(seq, x) == \E j \in 1..Len(seq) : seq[j] = x

\* wf.add_workflow_input(name, t)
AddInput(w, input_name) == [w EXCEPT !.inputs = Append(@, input_name)]

\* wf.add_entity(entity, **bound); the node it returns is the position
\* of the new node. sub holds the workflow when the entity is one.
AddEntity(w, entity, bound, sub) ==
    [w EXCEPT !.nodes = Append(@, [entity |-> entity, inputs |-> bound, sub |-> sub])]

\* Mutant: the dependency is recorded the other way round.
RunsAfter(w, upstream, downstream) ==
    [w EXCEPT !.edges = @ \cup {<<downstream, upstream>>}]

\* Lines 144 and 215: upstream >> downstream.
RunsBefore(w, upstream, downstream) ==
    [w EXCEPT !.edges = @ \cup {<<upstream, downstream>>}]

TruthyStr(opt) == opt # None /\ opt[1] # ""
TruthyDict(opt) == opt # None /\ opt[1] # <<>>

\* Lines 64-65 and 175-176.
RegionError(region, region_at_runtime) ==
    IF ~(TruthyStr(region) \/ region_at_runtime) THEN Error("ValueError", -1) ELSE NoError

\* Lines 17-34: the task object and the input types it was given.
create_deployment_task(task_name, inputs, images, region_at_runtime) ==
    LET new_inputs ==
            IF region_at_runtime
            THEN IF TruthyDict(inputs)
                 THEN Some(IF Contains(inputs[1], "region") THEN inputs[1]
                           ELSE Append(inputs[1], "region"))
                 ELSE Some(<<"region">>)
            ELSE inputs
    IN  [obj    |-> [name |-> task_name, inputs |-> new_inputs, images |-> images],
         inputs |-> new_inputs]

\* Lines 72-91: the three tasks in the order of the dict.
DeploymentTasks ==
    <<[name |-> "sagemaker-model", input_types |-> "model_input_types", images |-> TRUE],
      [name |-> "sagemaker-endpoint-config",
       input_types |-> "endpoint_config_input_types", images |-> FALSE],
      [name |-> "sagemaker-endpoint", input_types |-> "endpoint_input_types",
       images |-> FALSE]>>

InputTypes(args, field) ==
    CASE field = "model_input_types" -> args.model_input_types
      [] field = "endpoint_config_input_types" -> args.endpoint_config_input_types
      [] OTHER -> args.endpoint_input_types

\* Lines 183-189: the three delete tasks in the order of the OrderedDict.
DeleteTasks ==
    <<[name |-> "sagemaker-delete-endpoint", value |-> "endpoint_name"],
      [name |-> "sagemaker-delete-endpoint-config", value |-> "endpoint_config_name"],
      [name |-> "sagemaker-delete-model", value |-> "model_name"]>>

\* Lines 192-216: one pass of the loop of delete_sagemaker_deployment over
\* st, the workflow and the local list nodes.
DeletePass(st, k, region_at_runtime) ==
    LET value == DeleteTasks[k].value
        w1 == AddInput(st.wf, value)
        w2 == AddEntity(w1, DeleteTasks[k].name,
                        {InputRef(value)} \cup
                            (IF region_at_runtime THEN {InputRef("region")} ELSE {}),
                        <<>>)
        new == Len(w2.nodes)
    IN  [wf    |-> IF Len(st.nodes) > 0
                   THEN RunsBefore(w2, st.nodes[Len(st.nodes)], new) ELSE w2,
         nodes |-> Append(st.nodes, new)]

\* Lines 178-218: the workflow delete_sagemaker_deployment returns.
delete_sagemaker_deployment(region, region_at_runtime) ==
    LET st0 == [wf |-> Workflow("sagemaker-delete-deployment",
                                IF region_at_runtime THEN <<"region">> ELSE <<>>),
                nodes |-> <<>>]
    IN  DeletePass(DeletePass(DeletePass(st0, 1, region_at_runtime),
                              2, region_at_runtime), 3, region_at_runtime).wf

RegionChoices == {None, Some(""), Some("us-east-2")}

CreateArgs ==
    [fn : {"create_sagemaker_deployment"},
     region : RegionChoices, region_at_runtime : BOOLEAN, override : BOOLEAN,
     model_input_types : {None, Some(<<"model_name">>)},
     endpoint_config_input_types :
         {None, Some(<<>>), Some(<<"model_name", "endpoint_config_name">>)},
     endpoint_input_types : {None, Some(<<"endpoint_config_name", "endpoint_name">>)},
     names : {"absent", "literal", "reference"}]

\* Lines 64-70: create_sagemaker_deployment is entered.
CreateStart ==
    /\ wpc = "idle"
    /\ \E a \in CreateArgs :
          /\ wargs' = a
          /\ wexc' = RegionError(a.region, a.region_at_runtime)
          /\ wpc' = IF wexc' # NoError THEN "raised" ELSE "tasks"
          /\ wf' = IF wexc' # NoError THEN wf
                   ELSE Workflow("sagemaker-deploy",
                                 IF a.region_at_runtime THEN <<"region">> ELSE <<>>)
    /\ UNCHANGED <<task_input_dict, nodes, not_workflow>>

\* Lines 95-113: one pass of the loop that makes the tasks.
CreateTask ==
    /\ wpc = "tasks"
    /\ LET k == Len(task_input_dict) + 1
           made == create_deployment_task(
                       DeploymentTasks[k].name,
                       InputTypes(wargs, DeploymentTasks[k].input_types),
                       DeploymentTasks[k].images, wargs.region_at_runtime)
           params == IF made.inputs = None THEN <<>> ELSE made.inputs[1]
           IsNew(param) == ~Contains(wf.inputs, param)
       IN  /\ wf' = [wf EXCEPT !.inputs = @ \o SelectSeq(params, IsNew)]
           /\ task_input_dict' =
                  Append(task_input_dict,
                         [obj |-> made.obj,
                          input_dict |-> {InputRef(params[j]) : j \in 1..Len(params)}])
           /\ wpc' = IF k < Len(DeploymentTasks) THEN "tasks"
                     ELSE IF wargs.override THEN "override" ELSE "nodes"
    /\ UNCHANGED <<wargs, nodes, wexc, not_workflow>>

\* Lines 120-132: what a configured name becomes in inputs_mapping.
MappedName(key, style, wf_inputs) ==
    CASE style = "absent" -> Binding(key, "none", "")
      [] style = "literal" -> Binding(key, "literal", "deployed")
      [] OTHER -> InputRef(key)

\* Lines 115-137: the delete workflow is added as a node.
Override ==
    /\ wpc = "override"
    /\ LET keys == {"endpoint_name", "endpoint_config_name", "model_name"}
           unknown == {key \in keys : ~Contains(wf.inputs, key)}
           sub == delete_sagemaker_deployment(wargs.region, wargs.region_at_runtime)
           inputs_mapping ==
               {MappedName(key, wargs.names, wf.inputs) : key \in keys} \cup
                   (IF wargs.region_at_runtime THEN {InputRef("region")} ELSE {})
       IN  IF wargs.names = "reference" /\ unknown # {}
           THEN /\ wexc' = Error("KeyError", -1)
                /\ wpc' = "raised"
                /\ wf' = wf
           ELSE /\ wexc' = wexc
                /\ wpc' = "nodes"
                /\ wf' = AddEntity(wf, "sagemaker-delete-deployment", inputs_mapping, <<sub>>)
    /\ UNCHANGED <<wargs, task_input_dict, nodes, not_workflow>>

\* Lines 141-145: one pass of the loop that adds and chains the nodes.
AddNode ==
    /\ wpc = "nodes"
    /\ LET k == Len(nodes) + 1
           w1 == AddEntity(wf, task_input_dict[k].obj.name,
                           task_input_dict[k].input_dict, <<>>)
           new == Len(w1.nodes)
       IN  /\ wf' = IF Len(nodes) > 0 THEN RunsBefore(w1, nodes[Len(nodes)], new) ELSE w1
           /\ nodes' = Append(nodes, new)
           /\ wpc' = IF k < Len(task_input_dict) THEN "nodes" ELSE "output"
    /\ UNCHANGED <<wargs, task_input_dict, wexc, not_workflow>>

\* Lines 147-148.
AddOutput ==
    /\ wpc = "output"
    /\ wf' = [wf EXCEPT !.outputs =
                 Append(@, [name |-> "wf_output", node |-> nodes[3], var |-> "result"])]
    /\ wpc' = "returned"
    /\ UNCHANGED <<wargs, task_input_dict, nodes, wexc, not_workflow>>

\* delete_sagemaker_deployment(name, region, region_at_runtime) called by
\* itself (lines 167-218).
Delete ==
    /\ wpc = "idle"
    /\ \E region \in RegionChoices, region_at_runtime \in BOOLEAN :
          /\ wargs' = [NoWorkflowArgs EXCEPT !.fn = "delete_sagemaker_deployment",
                                              !.region = region,
                                              !.region_at_runtime = region_at_runtime]
          /\ wexc' = RegionError(region, region_at_runtime)
          /\ wpc' = IF wexc' # NoError THEN "raised" ELSE "returned"
          /\ wf' = IF wexc' # NoError THEN wf
                   ELSE delete_sagemaker_deployment(region, region_at_runtime)
    /\ UNCHANGED <<task_input_dict, nodes, not_workflow>>

NextWorkflow == CreateStart \/ CreateTask \/ Override \/ AddNode \/ AddOutput \/ Delete

SpecWorkflow == Init /\ [][NextWorkflow]_vars

(***************************************************************************)
(* Properties                                                              *)
(***************************************************************************)

\* A call of local_execute is under way or has just ended.
InCall == pc \in {"running", "returned", "raised"}
LastInvocation == invocations[Len(invocations)]
\* Number of sub-invocations of the current call in which the target raised.
NumFailed == Cardinality({j \in 1..Len(invocations) : ~invocations[j].ok})
HasNone(lits) == \E j \in 1..Len(lits) : lits[j].none

\* C1: for a target with an output, once the failure of the sub-invocation
\* of index idx leaves fewer than min_successes possible successes
\* (N - failures < min_successes), the call has stopped with that
\* invocation's exception, idx + 1 entries have been appended, and the
\* indices invoked are exactly 0..idx: none after idx.
C1_AbortOnExhaustion ==
    ( /\ InCall
      /\ outputs_expected
      /\ invocations # <<>>
      /\ ~LastInvocation.ok
      /\ mapped_entity_count - NumFailed < min_successes )
    => /\ pc = "raised"
       /\ exc = Error("TargetError", LastInvocation.index)
       /\ Len(literals) = LastInvocation.index + 1
       /\ Len(invocations) = LastInvocation.index + 1
       /\ \A j \in 1..Len(invocations) : invocations[j].index = j - 1
       /\ result = NoResult

\* An abort at index 1 of 3 after a tolerated failure at index 0.
C1_Witness ==
    /\ pc = "raised"
    /\ exc = Error("TargetError", 1)
    /\ mapped_entity_count = 3
    /\ failed_count = 2
    /\ Len(invocations) = 2

\* C2: when a call on a single-output target returns, the collection has
\* exactly N entries and entry idx is the output of sub-invocation idx if
\* the target returned there and the none literal if it raised.
C2_PositionalCorrespondence ==
    (pc = "returned" /\ node.target.n_outputs = 1)
    => /\ result.kind = "Promise"
       /\ Len(result.literals) = mapped_entity_count
       /\ Len(invocations) = mapped_entity_count
       /\ \A j \in 1..mapped_entity_count :
             LET lits == KwargsLiterals(
                            [k \in InputNames |->
                                IF k \in node.bound_inputs THEN kwargs[k]
                                ELSE Scalar(kwargs[k].items[j])])
             IN  /\ invocations[j].index = j - 1
                 /\ invocations[j].kwargs_literals = lits
                 /\ result.literals[j] =
                        IF TargetRaises(lits) THEN literal_with_none ELSE TargetOutput(lits)

\* A returned collection of three with the none literal in the middle and
\* two different outputs around it.
C2_Witness ==
    /\ pc = "returned"
    /\ Len(result.literals) = 3
    /\ ~result.literals[1].none
    /\ result.literals[2].none
    /\ ~result.literals[3].none
    /\ result.literals[1] # result.literals[3]

\* C3: the threshold local_execute uses is the explicit min_successes
\* whenever one is given, else ceil(N * min_success_ratio) when a ratio is
\* given, else N.
C3_ExplicitMinSuccessesWins ==
    pc = "running"
    => min_successes =
          IF node.min_successes # None THEN node.min_successes[1]
          ELSE IF node.min_success_ratio # None
               THEN Ceil(mapped_entity_count, node.min_success_ratio[1])
               ELSE mapped_entity_count

\* C4: unless min_success_ratio is set and differs from 1, a call (here: on
\* a target with an output) in which a sub-invocation failed does not
\* return, and a returned collection holds no none literal.
C4_FailureFatalWithoutRatio ==
    ( /\ pc = "returned"
      /\ outputs_expected
      /\ ~( /\ node.min_success_ratio # None
            /\ node.min_success_ratio[1][1] # node.min_success_ratio[1][2] ) )
    => /\ NumFailed = 0
       /\ ~HasNone(result.literals)

\* C5: for a target without output, every failed sub-invocation is
\* counted, the call aborts with the triggering exception as soon as
\* N - failed_count < min_successes, nothing is appended, and a call that
\* completes returns the void acknowledgement.
C5_VoidBudgetRuns ==
    (InCall /\ ~outputs_expected)
    => /\ failed_count = NumFailed
       /\ literals = <<>>
       /\ ( /\ invocations # <<>>
            /\ ~LastInvocation.ok
            /\ mapped_entity_count - NumFailed < min_successes )
          => (pc = "raised" /\ exc = Error("TargetError", LastInvocation.index))
       /\ pc = "returned" => result = VoidPromise(node.target.name)

\* C6: with neither min_successes nor min_success_ratio configured, the
\* first sub-invocation that fails ends the call at its index with its
\* exception: nothing is returned and no later index is invoked.
C6_ZeroToleranceAbort ==
    ( /\ InCall
      /\ node.min_successes = None
      /\ node.min_success_ratio = None
      /\ NumFailed > 0 )
    => /\ pc = "raised"
       /\ ~LastInvocation.ok
       /\ NumFailed = 1
       /\ exc = Error("TargetError", LastInvocation.index)
       /\ result = NoResult

\* C7: an aborted call raises the exception of the sub-invocation that ran
\* last, the one whose failure exhausted the budget, not that of an earlier
\* tolerated failure; and a call ends with a result or with an exception,
\* never with both.
C7_LastFailureRaised ==
    /\ (pc = "raised" /\ exc.type = "TargetError")
       => /\ invocations # <<>>
          /\ ~LastInvocation.ok
          /\ exc.index = LastInvocation.index
          /\ mapped_entity_count - NumFailed < min_successes
          /\ \A j \in 1..(Len(invocations) - 1) :
                ~invocations[j].ok =>
                   mapped_entity_count
                     - Cardinality({m \in 1..j : ~invocations[m].ok}) >= min_successes
    /\ pc = "raised" => (exc # NoError /\ result = NoResult)
    /\ pc = "returned" => (exc = NoError /\ result # NoResult)

\* An abort at the last of three indices, the two earlier ones having
\* succeeded and failed (the tolerated failure is not the one raised).
C7_Witness ==
    /\ pc = "raised"
    /\ exc = Error("TargetError", 2)
    /\ Len(invocations) = 3
    /\ invocations[1].ok
    /\ ~invocations[2].ok
    /\ Len(literals) = 3

\* The indices whose inputs make the target raise, for a call whose inputs
\* are well formed at every index.
WellFormedCall ==
    /\ CountError(node, kwargs) = NoError
    /\ \A idx \in 0..(Len(kwargs[FirstMappedKey(node)].items) - 1) :
          /\ BuildError(node, kwargs, idx) = NoError
          /\ TranslateError([k \in InputNames |->
                                IF k \in node.bound_inputs THEN kwargs[k]
                                ELSE Scalar(kwargs[k].items[idx + 1])]) = NoError
FailingIndices ==
    {idx \in 0..(mapped_entity_count - 1) :
        IF "x" \in node.bound_inputs
        THEN kwargs["x"].items[1].val < 0
        ELSE kwargs["x"].items[idx + 1].val < 0}

\* C8: with well-formed inputs, a call ends by the number F of failing
\* indices alone: with N - F >= min_successes it returns, whatever the
\* places of the failures, without exception and, for a target with an
\* output, with the none literal at exactly the failing indices; for such a
\* target it raises when F > 0 and N - F < min_successes.
C8_OrderIndependentTolerance ==
    ( /\ pc \in {"returned", "raised"}
      /\ MappedPositions(node) # {}
      /\ WellFormedCall )
    => LET F == Cardinality(FailingIndices)
       IN  /\ mapped_entity_count - F >= min_successes
              => /\ pc = "returned"
                 /\ exc = NoError
                 /\ outputs_expected
                    => /\ Len(result.literals) = mapped_entity_count
                       /\ \A idx \in 0..(mapped_entity_count - 1) :
                             result.literals[idx + 1].none <=> idx \in FailingIndices
           /\ (outputs_expected /\ F > 0 /\ mapped_entity_count - F < min_successes)
              => pc = "raised"

\* A returned collection of three whose first and last sub-invocations
\* failed.
C8_Witness ==
    /\ pc = "returned"
    /\ Len(result.literals) = 3
    /\ result.literals[1].none
    /\ ~result.literals[2].none
    /\ result.literals[3].none

\* C9: the input map of every sub-invocation holds, for a bound name, the
\* caller's value as it was passed and, for a mapped name, the element of
\* the caller's collection at the sub-invocation's index.
C9_BoundInputBroadcast ==
    \A j \in 1..Len(invocations) :
       \A k \in InputNames :
          /\ k \in node.bound_inputs => invocations[j].inputs[k] = kwargs[k]
          /\ k \notin node.bound_inputs =>
                /\ kwargs[k].kind = "list"
                /\ invocations[j].inputs[k].kind = "scalar"
                /\ invocations[j].inputs[k].items[1]
                      = kwargs[k].items[invocations[j].index + 1]

\* Three sub-invocations with y bound and x mapped, the elements of x
\* differing.
C9_Witness ==
    /\ node.bound_inputs = {"y"}
    /\ Len(invocations) = 3
    /\ invocations[3].index = 2
    /\ invocations[1].inputs["x"] # invocations[3].inputs["x"]
    /\ invocations[1].inputs["y"] = invocations[3].inputs["y"]

\* C10 as stated: a call whose mapped collection is empty invokes nothing
\* and does not raise.
C10_EmptyCollectionReturns ==
    ( /\ InCall
      /\ MappedPositions(node) # {}
      /\ kwargs[FirstMappedKey(node)] = List(<<>>) )
    => /\ pc # "raised"
       /\ invocations = <<>>

\* C10 amended: N is 0 only when every declared input is bound; such a call
\* invokes nothing, counts no failure and returns the empty collection (the
\* void acknowledgement for a target without output); a call whose first
\* mapped collection is empty raises ValueError before any sub-invocation.
C10_ZeroCountOnlyWhenAllBound ==
    /\ (pc \in {"running", "returned"} /\ mapped_entity_count = 0)
       => /\ MappedPositions(node) = {}
          /\ invocations = <<>>
          /\ failed_count = 0
          /\ pc = "returned" =>
                result = IF node.target.n_outputs = 1 THEN Promise(<<>>)
                         ELSE VoidPromise(node.target.name)
    /\ ( /\ InCall
         /\ MappedPositions(node) # {}
         /\ kwargs[FirstMappedKey(node)] = List(<<>>) )
       => /\ pc = "raised"
          /\ exc = Error("ValueError", -1)
          /\ invocations = <<>>

\* A call with every input bound has returned the empty collection.
C10_Witness ==
    /\ pc = "returned"
    /\ node.bound_inputs = InputNames
    /\ mapped_entity_count = 0
    /\ result = Promise(<<>>)

\* An input that is not bound is missing, is no list, is empty or holds an
\* element, at any place, that is not of the target's declared type.
ShapeDefect(n, kw) ==
    \E k \in InputNames \ n.bound_inputs :
        \/ kw[k].kind # "list"
        \/ kw[k].items = <<>>
        \/ \E j \in 1..Len(kw[k].items) : kw[k].items[j].type # TargetInputType(k)

\* C11: a call whose keyword arguments have an input-shape defect in any
\* input that is not bound (any such input, any element) raises before the
\* target is invoked for any index: during such a call (on a target with an
\* output) no invocation is ever recorded and the call does not return.
C11_ShapeErrorsBeforeAnyInvocation ==
    (InCall /\ outputs_expected /\ ShapeDefect(node, kwargs)) =>
        (invocations = <<>> /\ pc # "returned")

\* A construction has been evaluated.
Evaluated == pc # "new"

\* C12: a construction over a target with more than one output is rejected
\* with ValueError, and so is one over a LaunchPlan with an execution
\* version other than 1; a rejected construction leaves no node, so that no
\* sub-invocation was or can be attempted. A construction that leaves the
\* execution version unspecified is not rejected for it: the node's
\* execution version is 1.
C12_ConstructionRejection ==
    Evaluated =>
        /\ ctor.target.n_outputs > 1 =>
               (pc = "rejected" /\ exc.type = "ValueError")
        /\ (/\ ctor.via = "ArrayNode"
            /\ ctor.target.kind = "LaunchPlan"
            /\ ctor.execution_version \notin {None, Some(1)}) =>
               (pc = "rejected" /\ exc.type = "ValueError")
        /\ pc = "rejected" => (node = NoNode /\ invocations = <<>> /\ ~ENABLED Next)
        /\ (/\ ctor.execution_version = None
            /\ ctor.target.kind = "LaunchPlan"
            /\ ctor.target.n_outputs <= 1
            /\ ctor.metadata \in {"None", "NodeMetadata"}) =>
               (pc # "rejected" /\ node.execution_version = Some(1))

C12_Witness ==
    /\ pc = "rejected"
    /\ ctor.target = Target("LaunchPlan", 1)
    /\ ctor.execution_version = Some(2)
    /\ ctor.metadata = "None"

\* C13: a construction over a target that is not a LaunchPlan is rejected,
\* whether it goes through ArrayNode(...) or through array_node(...), and
\* so is one over a LaunchPlan with a metadata object that is not a
\* NodeMetadata; after a rejected construction there is no ArrayNode and no
\* call, iteration or return can follow.
C13_TargetAndMetadataRejection ==
    Evaluated =>
        /\ ctor.target.kind # "LaunchPlan" => pc = "rejected"
        /\ (/\ ctor.via = "array_node"
            /\ ctor.target.kind # "LaunchPlan") => exc.type = "ValueError"
        /\ (/\ ctor.via = "ArrayNode"
            /\ ctor.target.kind = "LaunchPlan"
            /\ ctor.metadata = "TaskMetadata") => pc = "rejected"
        /\ pc = "rejected" =>
               /\ node = NoNode
               /\ exc # NoError
               /\ ~ENABLED (Call \/ Iterate \/ Return)

C13_Witness ==
    /\ pc = "rejected"
    /\ ctor.via = "array_node"
    /\ ctor.target = Target("PythonTask", 1)

\* C14: in every state of a constructed ArrayNode, whatever calls were made
\* on it and however they ended, its name is the target's name, its
\* python_interface is the collection interface that construction derived
\* from its arguments, and it has no bindings and no upstream nodes.
C14_GraphIdentity ==
    pc \notin {"new", "rejected"} =>
        /\ name(node) = ctor.target.name
        /\ python_interface(node) =
               transform_interface_to_list_interface(
                   ctor.target, ctor.bound_inputs,
                   output_as_list_of_optionals(ctor.min_success_ratio,
                                               ctor.target.n_outputs))
        /\ bindings(node) = <<>>
        /\ upstream_nodes(node) = <<>>

\* A call on a node with a bound input has been aborted.
C14_Witness ==
    /\ pc = "raised"
    /\ exc.type = "TargetError"
    /\ ctor.bound_inputs = {"y"}
    /\ Len(invocations) = 2

\* The current call has ended and an earlier call with the same keyword
\* arguments is remembered.
RepeatedCallEnded ==
    /\ pc \in {"returned", "raised"}
    /\ prev # NoPrev
    /\ prev.kwargs = kwargs

\* C15: a call on an ArrayNode ends as an earlier call on it with the same
\* keyword arguments ended, whatever calls were made in between: it returns
\* the same value/none collection or raises the same error for the same
\* index. No failure count and no result entry of an earlier call shows.
C15_Idempotence ==
    (RepeatedCallEnded /\ prev.ctor = ctor) => Outcome = prev.outcome

\* An abort after a tolerated failure, seen twice.
C15_Witness ==
    /\ RepeatedCallEnded
    /\ prev.ctor = ctor
    /\ pc = "raised"
    /\ exc = Error("TargetError", 2)
    /\ failed_count = 2

\* Number of the first m sub-invocations of the current call that succeeded.
Succeeded(m) == Cardinality({j \in 1..m : invocations[j].ok})

\* C16: when min_successes is specified (a positive number, on a target
\* with an output), the array job is marked successful and its outputs are
\* computed as soon as that many sub-invocations have succeeded: no
\* sub-invocation starts once the number is reached, and no failure of the
\* target aborts the call after it.
C16_SuccessAsSoonAsMinSuccesses ==
    (InCall /\ outputs_expected /\ TruthyInt(node.min_successes)) =>
        /\ \A j \in 1..Len(invocations) : Succeeded(j - 1) < node.min_successes[1]
        /\ Succeeded(Len(invocations)) >= node.min_successes[1] =>
               ~(pc = "raised" /\ exc.type = "TargetError")

\* C17: two ArrayNodes built with the same arguments but for concurrency
\* (unset, 0 or positive), called with the same keyword arguments over the
\* same target, end the same way: same status, same returned collection,
\* same error and index.
C17_ConcurrencyIrrelevant ==
    (/\ RepeatedCallEnded
     /\ prev.ctor.concurrency # ctor.concurrency
     /\ [prev.ctor EXCEPT !.concurrency = ctor.concurrency] = ctor) =>
        Outcome = prev.outcome

\* Three elements returned by a node of concurrency 2 as by one of none.
C17_Witness ==
    /\ RepeatedCallEnded
    /\ prev.ctor.concurrency = None
    /\ ctor = [prev.ctor EXCEPT !.concurrency = Some(2)]
    /\ pc = "returned"
    /\ Len(result.literals) = 3

\* s is t or a beginning of t.
IsPrefix(s, t) == Len(s) <= Len(t) /\ \A j \in 1..Len(s) : s[j] = t[j]

\* C18: within one call the target is invoked for the indices 0, 1, 2, ...
\* in this order, for each at most once, and the slot of an index that has
\* failed holds the none literal from then on: the slots written are never
\* rewritten while the call runs, and they are the collection returned.
C18_NoRetryInPlace ==
    /\ [](InCall =>
            /\ \A j \in 1..Len(invocations) : invocations[j].index = j - 1
            /\ Len(invocations) <= mapped_entity_count
            /\ outputs_expected =>
                   /\ Len(literals) = Len(invocations)
                   /\ \A j \in 1..Len(invocations) :
                          ~invocations[j].ok => literals[j] = literal_with_none
                   /\ pc = "returned" => result.literals = literals)
    /\ [][pc = "running" =>
             /\ IsPrefix(invocations, invocations')
             /\ IsPrefix(literals, literals')]_vars

\* Index 0 failed, later indices ran, and its slot is none in the result.
C18_Witness ==
    /\ pc = "returned"
    /\ outputs_expected
    /\ Len(invocations) = 3
    /\ ~invocations[1].ok
    /\ invocations[3].ok
    /\ result.literals[1] = literal_with_none
    /\ result.literals[3] # literal_with_none

\* The current call has passed the scan of lines 109-119 and entered the loop.
Iterating == InCall /\ CountError(node, kwargs) = NoError

\* Exceptions raised while the inputs of one index are built or translated.
InputErrorTypes == {"KeyError", "TypeError", "IndexError", "TypeTransformerFailedError"}

\* C19 as stated: a call that has invoked the target ends in one of two
\* ways only; when it raises, it raises the error of a sub-invocation.
C19_TwoTerminalStates ==
    (pc = "raised" /\ invocations # <<>>) => exc.type = "TargetError"

\* C19, amended: a call that has entered the loop makes at most N target
\* invocations, can always take a step while it runs, and ends in one of
\* three ways: it returns after N invocations; it raises the error of the
\* sub-invocation that has just failed, the budget being exhausted; or it
\* raises an error met while the inputs of the next index were built or
\* translated, the target not being invoked for that index.
C19_ThreeTerminalStates ==
    Iterating =>
        /\ Len(invocations) <= mapped_entity_count
        /\ pc = "running" =>
               (i <= mapped_entity_count /\ ENABLED (Iterate \/ Return))
        /\ pc = "returned" =>
               /\ Len(invocations) = mapped_entity_count
               /\ result # NoResult
               /\ exc = NoError
        /\ pc = "raised" =>
               /\ result = NoResult
               /\ \/ /\ exc.type = "TargetError"
                     /\ invocations # <<>>
                     /\ ~LastInvocation.ok
                     /\ exc.index = LastInvocation.index
                     /\ mapped_entity_count - NumFailed < min_successes
                  \/ /\ exc.type \in InputErrorTypes
                     /\ Len(invocations) = i
                     /\ i < mapped_entity_count

\* The second mapped input is shorter than the first: the call ends with
\* IndexError after one sub-invocation.
C19_Witness ==
    /\ Iterating
    /\ pc = "raised"
    /\ exc.type = "IndexError"
    /\ node.bound_inputs = {}
    /\ Len(invocations) = 1

\* Length of the collection passed for the first declared input (x, then y)
\* that is not bound; 0 when both are bound.
LengthOfFirstMapped ==
    IF "x" \notin node.bound_inputs THEN Len(kwargs["x"].items)
    ELSE IF "y" \notin node.bound_inputs THEN Len(kwargs["y"].items)
    ELSE 0

\* C20: N is fixed once per call. From the moment the loop is entered, before
\* any sub-invocation, mapped_entity_count is the length of the collection
\* passed for the first input, in declared order, that is not bound (0 when
\* every input is bound); no step of the call changes it; and a call that
\* returns has invoked the target exactly N times.
C20_CountFixedPerCall ==
    /\ [](Iterating =>
            /\ mapped_entity_count = LengthOfFirstMapped
            /\ InputNames \subseteq node.bound_inputs => mapped_entity_count = 0
            /\ pc = "returned" => Len(invocations) = mapped_entity_count)
    /\ [][pc = "running" => mapped_entity_count' = mapped_entity_count]_vars

\* Two mapped inputs of lengths 2 and 3: the call returns after 2 invocations.
C20_Witness ==
    /\ pc = "returned"
    /\ node.bound_inputs = {}
    /\ Len(kwargs["x"].items) = 2
    /\ Len(kwargs["y"].items) = 3
    /\ mapped_entity_count = 2
    /\ Len(invocations) = 2

\* The inputs of index idx cannot be built or translated: a key is missing,
\* a mapped input is no list, is too short or holds at idx an element of
\* another type, or a bound input is not of the target's declared type.
InputDefectAt(idx) ==
    \E k \in InputNames :
        \/ kwargs[k].kind = "missing"
        \/ /\ k \notin node.bound_inputs
           /\ \/ kwargs[k].kind # "list"
              \/ Len(kwargs[k].items) <= idx
              \/ kwargs[k].items[idx + 1].type # TargetInputType(k)
        \/ /\ k \in node.bound_inputs
           /\ \/ kwargs[k].kind # "scalar"
              \/ kwargs[k].items[1].type # TargetInputType(k)

\* C21: when the inputs of the next index cannot be built or translated,
\* the pass ends the call with that error at once, whatever budget remains:
\* the target is not invoked, failed_count is not incremented and no entry
\* is appended to the result sequence.
C21_InputErrorsNotTolerated ==
    [][(pc = "running" /\ i < mapped_entity_count /\ InputDefectAt(i)) =>
          /\ pc' = "raised"
          /\ exc'.type \in InputErrorTypes
          /\ failed_count' = failed_count
          /\ literals' = literals
          /\ invocations' = invocations]_vars

\* A conversion error at index 1 ends a call whose ratio would have
\* tolerated one more failure.
C21_Witness ==
    /\ pc = "raised"
    /\ exc.type = "TypeTransformerFailedError"
    /\ outputs_expected
    /\ node.min_success_ratio = Some(<<1, 2>>)
    /\ node.min_successes = None
    /\ mapped_entity_count = 3
    /\ Len(invocations) = 1
    /\ failed_count = 0
    /\ literals # <<>>

\* C22: local_execute leaves the construct unchanged. In every state after
\* a construction that was not rejected, whatever calls were made and
\* however they ended, each field of the node is the value construction
\* gave it from its arguments (execution_version 1 when none was given), the
\* target with its interface included; and no step of a call changes the
\* collections the caller passed.
C22_ConstructUnchanged ==
    /\ [](pc \notin {"new", "rejected"} =>
            /\ node.target = ctor.target
            /\ node.bound_inputs = ctor.bound_inputs
            /\ node.concurrency = ctor.concurrency
            /\ node.min_successes = ctor.min_successes
            /\ node.min_success_ratio = ctor.min_success_ratio
            /\ node.execution_version =
                   (IF ctor.execution_version = None THEN Some(1)
                    ELSE ctor.execution_version)
            /\ node.metadata = ctor.metadata
            /\ node.collection_interface =
                   transform_interface_to_list_interface(
                       ctor.target, ctor.bound_inputs,
                       output_as_list_of_optionals(ctor.min_success_ratio,
                                                   ctor.target.n_outputs)))
    /\ [][(InCall /\ InCall') => (kwargs' = kwargs /\ node' = node)]_vars

\* An aborted call on a node that had a ratio and no min_successes.
C22_Witness ==
    /\ pc = "raised"
    /\ exc.type = "TargetError"
    /\ ctor.min_successes = None
    /\ ctor.min_success_ratio = Some(<<1, 2>>)
    /\ Len(invocations) = 3

\* Number of none literals in a sequence of literals.
NumNone(lits) == Cardinality({j \in 1..Len(lits) : lits[j].none})

\* C23: within one call on a single-output target, failed_count starts at 0
\* and is the number of failed sub-invocations so far, which is the number
\* of none literals appended; the result sequence holds one entry per
\* processed index, so that failed_count <= its length; a step of the call
\* leaves failed_count or adds exactly 1 to it, the latter exactly when a
\* sub-invocation has failed, and it leaves the result sequence or appends
\* one entry to it, changing no entry.
C23_MonotoneCountAppendOnlyResult ==
    /\ []((Iterating /\ outputs_expected) =>
            /\ failed_count = NumFailed
            /\ failed_count = NumNone(literals)
            /\ Len(literals) = Len(invocations)
            /\ failed_count <= Len(literals)
            /\ pc = "running" => Len(literals) = i
            /\ invocations = <<>> => failed_count = 0)
    /\ [][(pc = "running" /\ outputs_expected) =>
             /\ failed_count' \in {failed_count, failed_count + 1}
             /\ failed_count' = failed_count + 1 <=>
                    (invocations' # invocations /\ ~invocations'[Len(invocations')].ok)
             /\ IsPrefix(literals, literals')
             /\ Len(literals') <= Len(literals) + 1
             /\ invocations' # invocations => Len(literals') = Len(literals) + 1]_vars

\* Failures at indices 0 and 2 of three, both tolerated.
C23_Witness ==
    /\ pc = "returned"
    /\ outputs_expected
    /\ failed_count = 2
    /\ Len(literals) = 3
    /\ literals[1].none /\ ~literals[2].none /\ literals[3].none

\* Positions of the events of one kind, and whether one came before position p.
Positions(ev) == {q \in 1..Len(events) : events[q].ev = ev}
Before(ev, p) == \E q \in Positions(ev) : q < p

\* The executions of the task that exit_handler made: those that come
\* after the server was started.
HandlerTasks == {p \in Positions("task") : Before("start_server", p)}

\* What lies under the outermost jupyter layer of a callable, or its
\* innermost function when no layer above it is a jupyter instance.
UnderJupyter(f) ==
    LET js == {j \in 1..(Len(f) - 1) : f[j] = "jupyter"}
    IN  IF js = {} THEN <<f[Len(f)]>>
        ELSE SubSeq(f, (CHOOSE j \in js : \A m \in js : j <= m) + 1, Len(f))

Interactive == jpc # "idle" /\ jup.enable /\ ~jenv.local

\* C25: with the decorator on, a run that is not local and run_task_first
\* set, the task is what runs first and the server is started only if the
\* task has failed; when the task returns, its result is returned and
\* nothing else runs: no pre_execute, no server, no notebook, no
\* post_execute. With the decorator off or a local run, the task function
\* is called directly and the server is never started.
C25_RunTaskFirst ==
    /\ (Interactive /\ jup.run_task_first /\ events # <<>>) =>
          /\ events[1].ev = "task"
          /\ events[1].fn = jup.task_function
          /\ Positions("start_server") # {} => events[1].outcome = "Exception"
          /\ events[1].outcome = "returns" =>
                 /\ Len(events) = 1
                 /\ child_process = NoProcess
                 /\ jpc = "done"
                 /\ jresult = Returned(jup.task_function)
    /\ (jpc # "idle" /\ ~Interactive) =>
          /\ child_process = NoProcess
          /\ Len(events) <= 1
          /\ \A p \in 1..Len(events) :
                 /\ events[p].ev = "task"
                 /\ events[p].fn = jup.task_function
                 /\ jpc = "done"
                 /\ jresult.fn = jup.task_function
                 /\ jresult.kind = "returned" <=> events[p].outcome = "returns"

\* The task ran first and returned, with both callbacks given.
C25_Witness ==
    /\ Interactive
    /\ jup.run_task_first
    /\ jup.pre_execute = "returns"
    /\ jup.post_execute = "returns"
    /\ jpc = "done"
    /\ jresult.kind = "returned"
    /\ Len(events) = 1

\* C30 as stated: in a run of jupyter.execute the task function is executed
\* at most once.
C30_TaskAtMostOnce == Cardinality(Positions("task")) <= 1

\* C30, amended: in a run of jupyter.execute the task function is executed
\* at most twice, and twice only with the decorator on, a run that is not
\* local and run_task_first set: the first execution has raised an
\* Exception, which does not end the run, and the second is the one
\* exit_handler makes, of the unwrapped function, after the server has
\* exited. In every other run it is executed at most once.
C30_TaskAtMostTwice ==
    /\ Cardinality(Positions("task")) <= 2
    /\ ~(Interactive /\ jup.run_task_first) => Cardinality(Positions("task")) <= 1
    /\ Cardinality(Positions("task")) = 2 =>
          /\ events[1] = Event("task", jup.task_function, "Exception")
          /\ HandlerTasks = {Len(events)}
          /\ events[Len(events)].fn = UnderJupyter(jup.task_function)
          /\ Before("server_exit", Len(events))
    /\ (Interactive /\ jup.run_task_first /\ events # <<>>) =>
          /\ events[1].outcome = "Exception" => ~(jpc = "done" /\ Len(events) = 1)
          /\ HandlerTasks # {} => Cardinality(Positions("task")) = 2

\* The task failed first and was executed again after the server exited.
C30_Witness ==
    /\ Interactive
    /\ jup.run_task_first
    /\ jpc = "done"
    /\ Cardinality(Positions("task")) = 2
    /\ events[1].outcome = "Exception"
    /\ jresult.kind = "returned"

\* The node of workflow w that runs the entity, and whether there is one.
NodesOf(w, entity) == {n \in 1..Len(w.nodes) : w.nodes[n].entity = entity}
NodeOf(w, entity) == CHOOSE n \in NodesOf(w, entity) : TRUE

\* b depends on a in w: there is a path of at most n edges from a to b.
RECURSIVE DependsWithin(_, _, _, _)
DependsWithin(w, a, b, n) ==
    /\ n > 0
    /\ \/ <<a, b>> \in w.edges
       \/ \E c \in 1..Len(w.nodes) : <<a, c>> \in w.edges /\ DependsWithin(w, c, b, n - 1)
Precedes(w, a, b) == DependsWithin(w, a, b, Len(w.nodes))

\* The entities named are each run by one node of w, each of these nodes
\* depends directly on the one named before it, and none precedes an
\* earlier one.
Chained(w, entities) ==
    /\ \A k \in 1..Len(entities) : Cardinality(NodesOf(w, entities[k])) = 1
    /\ \A k \in 1..(Len(entities) - 1) :
          <<NodeOf(w, entities[k]), NodeOf(w, entities[k + 1])>> \in w.edges
    /\ \A k, m \in 1..Len(entities) :
          k < m => ~Precedes(w, NodeOf(w, entities[m]), NodeOf(w, entities[k]))

CreationOrder == <<"sagemaker-model", "sagemaker-endpoint-config", "sagemaker-endpoint">>
DeletionOrder ==
    <<"sagemaker-delete-endpoint", "sagemaker-delete-endpoint-config",
      "sagemaker-delete-model">>

\* C26: the workflow create_sagemaker_deployment returns chains its three
\* nodes: model creation, then endpoint-config creation, then endpoint
\* creation, each depending on the one added before it, and its output is
\* the result of the endpoint node. The workflow
\* delete_sagemaker_deployment returns (called by itself or for override)
\* chains endpoint deletion, endpoint-config deletion and model deletion.
C26_NodeOrdering ==
    /\ (wpc = "returned" /\ wargs.fn = "create_sagemaker_deployment") =>
          /\ Chained(wf, CreationOrder)
          /\ Precedes(wf, NodeOf(wf, "sagemaker-model"), NodeOf(wf, "sagemaker-endpoint"))
          /\ wf.outputs = <<[name |-> "wf_output",
                             node |-> NodeOf(wf, "sagemaker-endpoint"),
                             var  |-> "result"]>>
          /\ \A n \in 1..Len(wf.nodes) :
                 wf.nodes[n].sub # <<>> => Chained(wf.nodes[n].sub[1], DeletionOrder)
    /\ (wpc = "returned" /\ wargs.fn = "delete_sagemaker_deployment") =>
          /\ Chained(wf, DeletionOrder)
          /\ Len(wf.nodes) = 3

\* A deployment workflow built with override and the region at runtime.
C26_Witness ==
    /\ wpc = "returned"
    /\ wargs.fn = "create_sagemaker_deployment"
    /\ wargs.override
    /\ wargs.region_at_runtime
    /\ Len(wf.nodes) = 4
    /\ Cardinality(wf.edges) = 2

\* C27: whenever local_execute returns a result, the number of
\* sub-invocations that succeeded is at least the effective min_successes,
\* for every policy, an explicit min_successes greater than N included.
\* (Stated for a target with an output, where failures are counted, and
\* for a call that maps at least one element of unbound inputs.)
C27_ReturnMeetsMinSuccesses ==
    (pc = "returned" /\ outputs_expected /\ mapped_entity_count > 0 /\ node.bound_inputs = {}) =>
        Succeeded(Len(invocations)) >= min_successes

\* A call, past the scan for the mapped length, of a node without bound
\* inputs whose two mapped inputs are both lists: N is the length of x, the
\* first in declaration order, and OtherLength the length of y.
TwoMappedLists ==
    /\ Iterating
    /\ node.bound_inputs = {}
    /\ kwargs["x"].kind = "list"
    /\ kwargs["y"].kind = "list"
OtherLength == Len(kwargs["y"].items)

\* Every element of the caller's collections has the type the target takes.
ElementsTyped ==
    \A k \in InputNames :
        \A j \in 1..Len(kwargs[k].items) : kwargs[k].items[j].type = TargetInputType(k)

\* Every sub-invocation made so far took, for each input, the element of the
\* caller's collection at its own index.
ElementwiseInvocations ==
    \A j \in 1..Len(invocations) :
        /\ invocations[j].index = j - 1
        /\ \A k \in InputNames : invocations[j].inputs[k] = Scalar(kwargs[k].items[j])

\* C28 (as stated): when the other mapped collection has length L < N, the
\* call ends by failing at index L with the out-of-range error, whatever
\* the policy. (Stated for collections whose elements are all of the
\* target's type.)
C28_ShortCollectionFailsAtItsLength ==
    (/\ TwoMappedLists
     /\ ElementsTyped
     /\ OtherLength < LengthOfFirstMapped
     /\ pc \in {"returned", "raised"}) =>
        /\ pc = "raised"
        /\ exc.type = "IndexError"
        /\ i = OtherLength

\* C28 (amended): with mapped inputs of unequal length, N is the length of
\* the first. If the other collection has length >= N, no element at a
\* position >= N is read: the indices run to N - 1 at most, each
\* sub-invocation takes the elements at its index, no out-of-range error
\* and no error at an index >= N is raised, and a call that returns has made
\* N sub-invocations. If the other collection has length L < N, the call
\* never returns; it invokes indices below L only, and either aborts at an
\* index below L (budget exhausted or an element of the wrong type) or
\* fails at index L with the out-of-range error after L sub-invocations,
\* failed_count being what the failed sub-invocations made it.
C28_UnequalLengths ==
    /\ (TwoMappedLists /\ OtherLength >= LengthOfFirstMapped) =>
          /\ mapped_entity_count = LengthOfFirstMapped
          /\ i <= LengthOfFirstMapped
          /\ Len(invocations) <= LengthOfFirstMapped
          /\ ElementwiseInvocations
          /\ exc.type # "IndexError"
          /\ pc = "raised" => i < LengthOfFirstMapped
          /\ pc = "returned" => Len(invocations) = LengthOfFirstMapped
    /\ (TwoMappedLists /\ OtherLength < LengthOfFirstMapped) =>
          /\ pc # "returned"
          /\ Len(invocations) <= OtherLength
          /\ ElementwiseInvocations
          /\ pc = "raised" =>
                \/ /\ i < OtherLength
                   /\ exc.type \in {"TargetError", "TypeTransformerFailedError"}
                \/ /\ exc.type = "IndexError"
                   /\ i = OtherLength
                   /\ Len(invocations) = OtherLength
                   /\ failed_count = IF outputs_expected THEN NumFailed ELSE 0

\* A call that tolerated a failure and then failed at the length of the
\* shorter y.
C28_Witness ==
    /\ TwoMappedLists
    /\ outputs_expected
    /\ pc = "raised"
    /\ exc.type = "IndexError"
    /\ i = OtherLength
    /\ OtherLength = 2
    /\ failed_count = 1

\* A call that returned although y was longer than x and had a non-int
\* beyond the end of x.
LongerCollectionIgnored ==
    /\ TwoMappedLists
    /\ pc = "returned"
    /\ OtherLength > LengthOfFirstMapped
    /\ kwargs["y"].items[OtherLength].type # TargetInputType("y")

\* The callable of array_node exists: array_node has returned it.
FactoryCallable == ctor.via = "array_node" /\ pc \notin {"new", "rejected"}

\* C29: the callable array_node returns calls local_execute with the keyword
\* arguments fixed at array_node time merged with those of the call, the
\* call's value winning for a name given in both; every call goes to the
\* one node array_node built, which carries array_node's policy arguments
\* and no bound input, so that every input, fixed ones included, is read
\* element by element as a mapped collection.
C29_FactoryCallable ==
    /\ [](FactoryCallable =>
            /\ node.bound_inputs = {}
            /\ MappedPositions(node) = 1..Len(InputKeys)
            /\ node.target = ctor.target
            /\ node.concurrency = ctor.concurrency
            /\ node.min_successes = ctor.min_successes
            /\ node.min_success_ratio = ctor.min_success_ratio
            /\ InCall =>
                  /\ \A k \in InputNames :
                        kwargs[k] = IF inner_kwargs[k].kind # "missing"
                                    THEN inner_kwargs[k]
                                    ELSE ctor.kwargs[k]
                  /\ \A j \in 1..Len(invocations) :
                        \A k \in InputNames :
                            /\ kwargs[k].kind = "list"
                            /\ invocations[j].inputs[k] = Scalar(kwargs[k].items[j]))
    /\ [][FactoryCallable => (node' = node /\ ctor' = ctor)]_vars

\* A call of the callable that overrode the fixed y with a shorter list of
\* its own and returned after mapping over both inputs.
C29_Witness ==
    /\ FactoryCallable
    /\ pc = "returned"
    /\ ctor.kwargs["y"].kind = "list"
    /\ inner_kwargs["y"].kind = "list"
    /\ inner_kwargs["y"] # ctor.kwargs["y"]
    /\ kwargs["y"] = inner_kwargs["y"]
    /\ Len(invocations) = 2

\* C31: in the workflow create_sagemaker_deployment returns for
\* override=True, the node of the delete-deployment sub-workflow precedes
\* the model-creation node: the model node depends on it, directly or
\* through other nodes.
C31_DeleteBeforeCreate ==
    (wpc = "returned" /\ wargs.fn = "create_sagemaker_deployment" /\ wargs.override) =>
        /\ Cardinality(NodesOf(wf, "sagemaker-delete-deployment")) = 1
        /\ Precedes(wf, NodeOf(wf, "sagemaker-delete-deployment"), NodeOf(wf, "sagemaker-model"))

\* What the code does build for override=True: the delete node is the first
\* node added, and no dependency joins it to any other node.
DeleteNodeUnordered ==
    (wpc = "returned" /\ wargs.fn = "create_sagemaker_deployment" /\ wargs.override) =>
        /\ NodesOf(wf, "sagemaker-delete-deployment") = {1}
        /\ \A e \in wf.edges : e[1] # 1 /\ e[2] # 1

=============================================================================
